---------------------------- MODULE Spec2Model ----------------------------
(***************************************************************************)
(* The two icon generators of parkour-hobo, create_icons.py (variant A)    *)
(* and create_product_icons.py (variant B), as one state machine over a    *)
(* file system: a run of either script creates assets/product_icons, then  *)
(* for each name of the fixed list allocates a canvas, draws on it and     *)
(* saves it as a PNG.  Runs follow one another on the same file system.    *)
(*                                                                         *)
(* A canvas is kept as its background and the ordered drawing calls made   *)
(* on it; Pixel renders a pixel from them with Pillow's semantics (the     *)
(* rectangle's two corners are both inside it, the outline is drawn        *)
(* inwards, a later call paints over an earlier one).                      *)
(***************************************************************************)
EXTENDS Integers, Sequences, FiniteSets, TLC

VARIABLES
    font,     \* the canvas pixels the rasterizer's default font inks (environment)
    dir,      \* what assets/product_icons is: "absent", "dir" or "file"
    files,    \* path -> content, the files under assets/product_icons
    script,   \* the script of the current run
    fault,    \* the I/O operation the environment fails in this run
    pc,       \* position in the script
    i,        \* index into icons of the current iteration
    img,      \* the canvas of the current iteration
    loc,      \* the iteration's variables: color, display_name, text_*, path
    out,      \* the lines printed by the current run
    log,      \* the calls the current run has made, in order
    prev      \* how the previous run ended, and the file system it left

vars == <<font, dir, files, script, fault, pc, i, img, loc, out, log, prev>>

-----------------------------------------------------------------------------
(* Program constants *)

Scripts == {"create_icons", "create_product_icons"}

\* The list in sorted order, as sorted(icons) would iterate it.
iconsSorted == <<"cardboard_armor_icon", "cool_shades_icon", "extra_life_icon", "hobo_cape_icon">>

icons == <<"hobo_cape_icon", "cool_shades_icon", "cardboard_armor_icon", "extra_life_icon">>

OutDir == "assets/product_icons"

CanvasSize == 256

White == <<255, 255, 255>>

\* colors.get(icon_name, (100, 100, 100))
colors(icon_name) ==
    CASE icon_name = "hobo_cape_icon" -> <<120, 120, 120>>
      [] icon_name = "cool_shades_icon" -> <<50, 50, 50>>
      [] icon_name = "cardboard_armor_icon" -> <<160, 120, 80>>
      [] icon_name = "extra_life_icon" -> <<200, 50, 50>>
      [] OTHER -> <<100, 100, 100>>

-----------------------------------------------------------------------------
(* Strings: str.replace, str.title, os.path.join *)

LowerAlpha == "abcdefghijklmnopqrstuvwxyz"
UpperAlpha == "ABCDEFGHIJKLMNOPQRSTUVWXYZ"

CharAt(s, k) == SubSeq(s, k, k)

IsLower(c) == \E k \in 1..Len(LowerAlpha) : CharAt(LowerAlpha, k) = c
IsUpper(c) == \E k \in 1..Len(UpperAlpha) : CharAt(UpperAlpha, k) = c
IsCased(c) == IsLower(c) \/ IsUpper(c)

ToUpper(c) ==
    IF IsLower(c)
    THEN CharAt(UpperAlpha, CHOOSE k \in 1..Len(LowerAlpha) : CharAt(LowerAlpha, k) = c)
    ELSE c

ToLower(c) ==
    IF IsUpper(c)
    THEN CharAt(LowerAlpha, CHOOSE k \in 1..Len(UpperAlpha) : CharAt(UpperAlpha, k) = c)
    ELSE c

\* str.replace(old, new): every non-overlapping occurrence, left to right
RECURSIVE Replace(_, _, _)
Replace(s, old, new) ==
    IF Len(s) < Len(old) THEN s
    ELSE IF SubSeq(s, 1, Len(old)) = old
         THEN new \o Replace(SubSeq(s, Len(old) + 1, Len(s)), old, new)
         ELSE CharAt(s, 1) \o Replace(SubSeq(s, 2, Len(s)), old, new)

\* str.title(): a cased character is upper-cased when the character before it
\* is not cased, and lower-cased otherwise
RECURSIVE TitleFrom(_, _)
TitleFrom(s, k) ==
    IF k > Len(s) THEN ""
    ELSE LET c == CharAt(s, k)
             prevCased == k > 1 /\ IsCased(CharAt(s, k - 1))
         IN  (IF prevCased THEN ToLower(c) ELSE ToUpper(c)) \o TitleFrom(s, k + 1)

\* str.capitalize(): only the first character upper-cased
Capitalize(s) ==
    IF Len(s) = 0 THEN s ELSE ToUpper(CharAt(s, 1)) \o SubSeq(s, 2, Len(s))

Title(s) == TitleFrom(s, 1)

\* icon_name.replace("_icon", "").replace("_", " ").title()
DisplayName(icon_name) == Title(Replace(Replace(icon_name, "_icon", ""), "_", " "))

\* os.path.join(a, b)
PathJoin(a, b) ==
    IF Len(b) > 0 /\ CharAt(b, 1) = "/" THEN b
    ELSE IF Len(a) = 0 \/ CharAt(a, Len(a)) = "/" THEN a \o b
    ELSE a \o "/" \o b

-----------------------------------------------------------------------------
(* Canvas and drawing (Pillow's Image.new, ImageDraw.rectangle, ImageDraw.text) *)

NoImg == [mode |-> "none", size |-> <<0, 0>>, bg |-> <<>>, ops |-> <<>>]

\* Image.new('RGBA', (256, 256), (0, 0, 0, 0))
NewImageA == [mode |-> "RGBA", size |-> <<CanvasSize, CanvasSize>>, bg |-> <<0, 0, 0, 0>>, ops |-> <<>>]

\* Image.new('RGB', (256, 256), color=(100, 150, 200))
NewImageB == [mode |-> "RGB", size |-> <<CanvasSize, CanvasSize>>, bg |-> <<100, 150, 200>>, ops |-> <<>>]

\* draw.rectangle([20, 20, 236, 236], fill=color, outline=(255, 255, 255), width=5)
RectA(color) ==
    [kind |-> "rectangle", x0 |-> 20, y0 |-> 20, x1 |-> 236, y1 |-> 236,
     fill |-> color, outline |-> White, width |-> 5]

\* draw.rectangle([(50, 50), (206, 206)], fill=(70, 90, 150), outline=(255, 255, 255), width=3)
RectB ==
    [kind |-> "rectangle", x0 |-> 50, y0 |-> 50, x1 |-> 206, y1 |-> 206,
     fill |-> <<70, 90, 150>>, outline |-> White, width |-> 3]

\* text_width = len(display_name) * 10
TextWidth(display_name) == Len(display_name) * 10

\* 256 - text_width // 2: the halving applied to the width alone
TextXNoParens(text_width) == CanvasSize - text_width \div 2

\* text_x = (256 - text_width) // 2
TextX(text_width) == (CanvasSize - text_width) \div 2

\* text_y = 128 - 10
TextY == 128 - 10

\* draw.text((text_x, text_y), display_name, fill=text_color)
TextOp(x, y, text, fill) == [kind |-> "text", x |-> x, y |-> y, text |-> text, fill |-> fill]

\* The colour a drawing call stores for a colour tuple: an RGB triple drawn on
\* an RGBA canvas is opaque.
Ink(mode, color) == IF mode = "RGBA" /\ Len(color) = 3 THEN Append(color, 255) ELSE color

InRect(op, x, y) == op.x0 <= x /\ x <= op.x1 /\ op.y0 <= y /\ y <= op.y1

\* The outline of width w is the w outermost rings of the rectangle.
OnOutline(op, x, y) ==
    /\ InRect(op, x, y)
    /\ \/ x < op.x0 + op.width
       \/ x > op.x1 - op.width
       \/ y < op.y0 + op.width
       \/ y > op.y1 - op.width

\* The pixels the text call inks are the rasterizer's: those of font that lie
\* in the box the script reckons with, 10 columns a character and 10 rows on
\* either side of row 128.
TextInk(op, x, y) ==
    /\ <<x, y>> \in font
    /\ op.x <= x /\ x < op.x + TextWidth(op.text)
    /\ op.y <= y /\ y < op.y + 2 * (128 - TextY)

Covers(op, x, y) ==
    IF op.kind = "rectangle" THEN InRect(op, x, y) ELSE TextInk(op, x, y)

Paint(op, x, y) ==
    IF op.kind = "rectangle"
    THEN (IF OnOutline(op, x, y) THEN op.outline ELSE op.fill)
    ELSE op.fill

\* The pixel (x, y) after the first n drawing calls: the last call covering it.
RECURSIVE PixelOps(_, _, _, _)
PixelOps(im, n, x, y) ==
    IF n = 0 THEN im.bg
    ELSE IF Covers(im.ops[n], x, y) THEN Ink(im.mode, Paint(im.ops[n], x, y))
    ELSE PixelOps(im, n - 1, x, y)

\* img.getpixel((x, y))
Pixel(im, x, y) == PixelOps(im, Len(im.ops), x, y)

Draw(im, op) == [im EXCEPT !.ops = Append(@, op)]

-----------------------------------------------------------------------------
(* File system and img.save *)

\* A file whose write began and did not finish.
Partial == [format |-> "partial", mode |-> "none", size |-> <<0, 0>>, bg |-> <<>>, ops |-> <<>>]

\* PNG encoding is lossless: the file holds the canvas.
Encode(im) == [format |-> "PNG", mode |-> im.mode, size |-> im.size, bg |-> im.bg, ops |-> im.ops]

\* open(path, "ab"): the drawing is added to what the file held
WriteFileAppend(fs, path, content) ==
    [p \in DOMAIN fs \cup {path} |->
        IF p # path THEN fs[p]
        ELSE IF path \in DOMAIN fs THEN [content EXCEPT !.ops = fs[path].ops \o @]
        ELSE content]

\* open(path, "w+b") and the write: the file is created or replaced
WriteFile(fs, path, content) ==
    [p \in DOMAIN fs \cup {path} |-> IF p = path THEN content ELSE fs[p]]

\* The name left out of the file name: every icon on one path
PathAFixed(icon_name) == PathJoin(OutDir, "icon_name.png")

\* path = os.path.join("assets/product_icons", f"{icon_name}.png")
PathA(icon_name) == PathJoin(OutDir, icon_name \o ".png")

\* Variant B writing under file names of its own
PathBRenamed(icon) == "assets/product_icons/" \o icon \o "_product.png"

\* product_icon_path = f"assets/product_icons/{icon}.png"
PathB(icon) == "assets/product_icons/" \o icon \o ".png"

PathOf(s, icon) == IF s = "create_icons" THEN PathA(icon) ELSE PathB(icon)

\* os.makedirs without exist_ok: an existing directory raises FileExistsError
MakedirsNoExistOk(d, fail) ==
    CASE d = "dir" -> [ok |-> FALSE, dir |-> "dir"]
      [] d = "file" -> [ok |-> FALSE, dir |-> "file"]
      [] OTHER -> IF fail THEN [ok |-> FALSE, dir |-> d] ELSE [ok |-> TRUE, dir |-> "dir"]

\* os.makedirs("assets/product_icons", exist_ok=True) on a path that is d,
\* the environment failing the creation or not
Makedirs(d, fail) ==
    CASE d = "dir" -> [ok |-> TRUE, dir |-> "dir"]
      [] d = "file" -> [ok |-> FALSE, dir |-> "file"]
      [] OTHER -> IF fail THEN [ok |-> FALSE, dir |-> d] ELSE [ok |-> TRUE, dir |-> "dir"]

\* An exception caught and passed over: the loop goes on
Swallow == "iter"

\* An exception nothing catches ends the script.
Raise == "error"

-----------------------------------------------------------------------------
(* The environment *)

Centre == <<128, 128>>

\* The rasterizer's default font either inks the canvas centre or does not.
Fonts == SUBSET {Centre}

NoFault == [op |-> "none", k |-> 0]

\* The I/O operation of a run that the environment fails, if any.
Faults ==
    {NoFault, [op |-> "makedirs", k |-> 0]} \cup {[op |-> "save", k |-> k] : k \in 1..Len(icons)}

NoFiles == [p \in {} |-> Partial]

NoLoc == [color |-> <<>>, display_name |-> "", text_width |-> 0, text_x |-> 0, text_y |-> 0, path |-> ""]

\* A call the run made: for icon k (0: none), on path (save only), raising or not.
Event(op, k, ok, path) == [op |-> op, k |-> k, ok |-> ok, path |-> path]

-----------------------------------------------------------------------------
(* The scripts *)

Init ==
    /\ font \in Fonts
    /\ dir \in {"absent", "dir", "file"}
    /\ files = NoFiles
    /\ script = "none"
    /\ fault = NoFault
    /\ pc = "idle"
    /\ i = 0
    /\ img = NoImg
    /\ loc = NoLoc
    /\ out = <<>>
    /\ log = <<>>
    /\ prev = [script |-> "none", result |-> "none", dir |-> dir, files |-> files]

\* A script is started, on the file system as the run before left it.
StartRun ==
    /\ pc \in {"idle", "done", "error"}
    /\ script' \in Scripts
    /\ fault' \in Faults
    /\ pc' = "makedirs"
    /\ i' = 0
    /\ img' = NoImg
    /\ loc' = NoLoc
    /\ out' = <<>>
    /\ log' = <<>>
    /\ prev' = [script |-> script, result |-> IF pc = "idle" THEN "none" ELSE pc,
                dir |-> dir, files |-> files]
    /\ UNCHANGED <<font, dir, files>>

\* os.makedirs("assets/product_icons", exist_ok=True)
MakedirsStep ==
    /\ pc = "makedirs"
    /\ LET r == Makedirs(dir, fault.op = "makedirs") IN
        /\ dir' = r.dir
        /\ log' = Append(log, Event("makedirs", 0, r.ok, OutDir))
        /\ pc' = IF r.ok THEN "iter" ELSE Raise
    /\ UNCHANGED <<font, files, script, fault, i, img, loc, out, prev>>

\* for icon_name in icons:
LoopNext ==
    /\ pc = "iter"
    /\ i < Len(icons)
    /\ i' = i + 1
    /\ pc' = IF script = "create_icons" THEN "new" ELSE "announce"
    /\ UNCHANGED <<font, dir, files, script, fault, img, loc, out, log, prev>>

LoopExit ==
    /\ pc = "iter"
    /\ i >= Len(icons)
    /\ pc' = "final"
    /\ UNCHANGED <<font, dir, files, script, fault, i, img, loc, out, log, prev>>

\* print(f"Creating {icon}")
Announce ==
    /\ pc = "announce"
    /\ out' = Append(out, "Creating " \o icons[i])
    /\ pc' = "new"
    /\ UNCHANGED <<font, dir, files, script, fault, i, img, loc, log, prev>>

\* img = Image.new(...)
NewImage ==
    /\ pc = "new"
    /\ img' = IF script = "create_icons" THEN NewImageA ELSE NewImageB
    /\ log' = Append(log, Event("new", i, TRUE, ""))
    /\ pc' = "rectangle"
    /\ UNCHANGED <<font, dir, files, script, fault, i, loc, out, prev>>

\* color = colors.get(icon_name, ...); draw.rectangle(...)
DrawRectangleA ==
    /\ pc = "rectangle"
    /\ script = "create_icons"
    /\ loc' = [loc EXCEPT !.color = colors(icons[i])]
    /\ img' = Draw(img, RectA(loc'.color))
    /\ log' = Append(log, Event("rectangle", i, TRUE, ""))
    /\ pc' = "label"
    /\ UNCHANGED <<font, dir, files, script, fault, i, out, prev>>

\* draw.rectangle(...)
DrawRectangleB ==
    /\ pc = "rectangle"
    /\ script = "create_product_icons"
    /\ img' = Draw(img, RectB)
    /\ log' = Append(log, Event("rectangle", i, TRUE, ""))
    /\ pc' = "save"
    /\ UNCHANGED <<font, dir, files, script, fault, i, loc, out, prev>>

\* display_name = ...; text_width = ...; text_x = ...; text_y = ...
ComputeLabel ==
    /\ pc = "label"
    /\ LET name == DisplayName(icons[i])
           w == TextWidth(name)
       IN  loc' = [loc EXCEPT !.display_name = name, !.text_width = w,
                              !.text_x = TextX(w), !.text_y = TextY]
    /\ pc' = "text"
    /\ UNCHANGED <<font, dir, files, script, fault, i, img, out, log, prev>>

\* draw.text((text_x, text_y), display_name, fill=text_color)
DrawText ==
    /\ pc = "text"
    /\ img' = Draw(img, TextOp(loc.text_x, loc.text_y, loc.display_name, White))
    /\ log' = Append(log, Event("text", i, TRUE, ""))
    /\ pc' = "save"
    /\ UNCHANGED <<font, dir, files, script, fault, i, loc, out, prev>>

\* path = ...; img.save(path)
SaveOk ==
    /\ pc = "save"
    /\ fault # [op |-> "save", k |-> i]
    /\ loc' = [loc EXCEPT !.path = PathOf(script, icons[i])]
    /\ files' = WriteFile(files, loc'.path, Encode(img))
    /\ log' = Append(log, Event("save", i, TRUE, loc'.path))
    /\ pc' = "print"
    /\ UNCHANGED <<font, dir, script, fault, i, img, out, prev>>

\* img.save(path) raising: the file is as it was (the open failed), or holds
\* what was written before the failure.
SaveFail ==
    /\ pc = "save"
    /\ fault = [op |-> "save", k |-> i]
    /\ loc' = [loc EXCEPT !.path = PathOf(script, icons[i])]
    /\ files' \in {files, WriteFile(files, loc'.path, Partial)}
    /\ log' = Append(log, Event("save", i, FALSE, loc'.path))
    /\ pc' = Raise
    /\ UNCHANGED <<font, dir, script, fault, i, img, out, prev>>

\* print(f"Created {path}") / print(f"Saved {product_icon_path}")
PrintSaved ==
    /\ pc = "print"
    /\ out' = Append(out, (IF script = "create_icons" THEN "Created " ELSE "Saved ") \o loc.path)
    /\ pc' = "iter"
    /\ UNCHANGED <<font, dir, files, script, fault, i, img, loc, log, prev>>

FinalLine == "All product icons created successfully!"

\* print("All product icons created successfully!")
PrintFinal ==
    /\ pc = "final"
    /\ out' = Append(out, FinalLine)
    /\ pc' = "done"
    /\ UNCHANGED <<font, dir, files, script, fault, i, img, loc, log, prev>>

Next ==
    \/ StartRun
    \/ MakedirsStep
    \/ LoopNext
    \/ LoopExit
    \/ Announce
    \/ NewImage
    \/ DrawRectangleA
    \/ DrawRectangleB
    \/ ComputeLabel
    \/ DrawText
    \/ SaveOk
    \/ SaveFail
    \/ PrintSaved
    \/ PrintFinal

Spec == Init /\ [][Next]_vars

-----------------------------------------------------------------------------
(* Properties *)

\* The fixed list and the paths as the specification gives them.
ClaimNames == <<"hobo_cape_icon", "cool_shades_icon", "cardboard_armor_icon", "extra_life_icon">>

ClaimPath(m) == "assets/product_icons/" \o ClaimNames[m] \o ".png"

ClaimPaths == {ClaimPath(m) : m \in DOMAIN ClaimNames}

SavesOn(p) == {j \in DOMAIN log : log[j].op = "save" /\ log[j].path = p}

Printed(line) == \E j \in DOMAIN out : out[j] = line

Opaque(mode, color) == IF mode = "RGBA" THEN color \o <<255>> ELSE color

ModeOf(s) == IF s = "create_icons" THEN "RGBA" ELSE "RGB"

\* content is a complete PNG as script s draws icon m
WrittenBy(s, m, content) ==
    /\ content.format = "PNG"
    /\ content.mode = ModeOf(s)
    /\ Len(content.ops) >= 1
    /\ content.ops[1].fill = (IF s = "create_icons" THEN colors(ClaimNames[m]) ELSE <<70, 90, 150>>)

\* The same file, present or absent, in two file systems.
SameAt(fs1, fs2, p) ==
    /\ p \in DOMAIN fs1 <=> p \in DOMAIN fs2
    /\ p \in DOMAIN fs1 => fs1[p] = fs2[p]

\* C1: when a run of either script has completed, each of the four files
\* assets/product_icons/<name>.png exists, the run wrote each of the four
\* paths exactly once, and it wrote no other path.
C1_FourFilesEachWrittenOnce ==
    pc = "done" =>
        /\ \A m \in DOMAIN ClaimNames :
              /\ ClaimPath(m) \in DOMAIN files
              /\ files[ClaimPath(m)].format = "PNG"
              /\ Cardinality(SavesOn(ClaimPath(m))) = 1
        /\ \A j \in DOMAIN log : log[j].op = "save" => log[j].path \in ClaimPaths
        /\ \A p \in (DOMAIN files \cup DOMAIN prev.files) \ ClaimPaths : SameAt(files, prev.files, p)

C1_Witness ==
    /\ pc = "done"
    /\ script = "create_icons"
    /\ prev.result = "none"
    /\ prev.dir = "absent"
    /\ DOMAIN files = ClaimPaths

\* C2: the pixel (128,128) of every image that is saved has exactly the fill
\* colour configured for that icon, opaque, whichever script saved it.
C2_CentrePixelIsConfiguredFill ==
    pc = "print" =>
        Pixel(files[loc.path], 128, 128) = Opaque(files[loc.path].mode, colors(ClaimNames[i]))

\* The label as the specification derives it: a trailing "_icon" stripped,
\* underscores to spaces, the first letter of each word upper-cased.
StripSuffix(s, suffix) ==
    IF Len(s) >= Len(suffix) /\ SubSeq(s, Len(s) - Len(suffix) + 1, Len(s)) = suffix
    THEN SubSeq(s, 1, Len(s) - Len(suffix))
    ELSE s

RECURSIVE TitleWords(_, _)
TitleWords(s, k) ==
    IF k > Len(s) THEN ""
    ELSE LET c == CharAt(s, k) IN
         (IF c = "_" THEN " "
          ELSE IF k = 1 \/ CharAt(s, k - 1) = "_" THEN ToUpper(c)
          ELSE ToLower(c)) \o TitleWords(s, k + 1)

SpecLabel(name) == TitleWords(StripSuffix(name, "_icon"), 1)

\* C3: the label create_icons.py computes for a name of the list is the name
\* with its trailing "_icon" stripped, underscores replaced by spaces and each
\* word title-cased: "Hobo Cape" for hobo_cape_icon, "Extra Life" for
\* extra_life_icon.
C3_LabelFromName ==
    pc = "text" =>
        /\ loc.display_name = SpecLabel(ClaimNames[i])
        /\ i = 1 => loc.display_name = "Hobo Cape"
        /\ i = 4 => loc.display_name = "Extra Life"

C3_Witness == pc = "text" /\ i = 4 /\ loc.display_name = "Extra Life"

\* C4: the creation of the output directory is the first call of a run and
\* the only such call, every file write comes after it has succeeded, and on
\* an existing directory it succeeds and changes nothing.
C4_MakedirsBeforeWrites ==
    /\ pc \in {"idle", "makedirs"} => log = <<>>
    /\ pc \notin {"idle", "makedirs"} =>
          /\ Len(log) >= 1
          /\ log[1].op = "makedirs"
          /\ Cardinality({j \in DOMAIN log : log[j].op = "makedirs"}) = 1
          /\ prev.dir = "dir" => log[1].ok /\ dir = "dir"
          /\ (prev.dir = "dir" /\ Len(log) = 1) => files = prev.files
    /\ \A j \in DOMAIN log : log[j].op = "save" => j > 1 /\ log[1].ok /\ dir = "dir"

C4_Witness ==
    /\ pc = "print"
    /\ i = 1
    /\ prev.dir = "dir"
    /\ prev.result = "done"

\* C5: the calls of a run go through the list in order, the file of icon m is
\* written before anything is drawn for icon m+1, the files are written in
\* the order hobo_cape_icon, cool_shades_icon, cardboard_armor_icon,
\* extra_life_icon, and the final line is printed only after all four.
C5_SequentialInListOrder ==
    /\ \A j, k \in DOMAIN log : j < k => log[j].k <= log[k].k
    /\ \A j \in DOMAIN log :
          (log[j].op \in {"new", "rectangle", "text", "save"} /\ log[j].k > 1) =>
              \E h \in 1..(j - 1) :
                  /\ log[h].op = "save" /\ log[h].ok
                  /\ log[h].k = log[j].k - 1
                  /\ log[h].path \in DOMAIN files
    /\ \A j \in DOMAIN log : log[j].op = "save" => log[j].path = ClaimPath(log[j].k)
    /\ Printed(FinalLine) =>
          \A m \in DOMAIN ClaimNames :
              \E j \in DOMAIN log : log[j].op = "save" /\ log[j].ok /\ log[j].path = ClaimPath(m)

C5_Witness == pc = "done" /\ Printed(FinalLine) /\ Len(SelectSeq(log, LAMBDA e : e.op = "save")) = 4

\* C6: a run of the script that the previous, successful run was of ends
\* without error unless the environment fails it, writes each of the four
\* files once more, and leaves the file system as the previous run left it.
C6_RerunIsIdempotent ==
    (prev.result = "done" /\ prev.script = script) =>
        /\ fault = NoFault => pc # "error"
        /\ pc = "done" =>
              /\ files = prev.files
              /\ dir = prev.dir
              /\ \A m \in DOMAIN ClaimNames :
                    \E j \in DOMAIN log : log[j].op = "save" /\ log[j].ok /\ log[j].path = ClaimPath(m)

C6_Witness ==
    /\ prev.result = "done"
    /\ prev.script = script
    /\ script = "create_icons"
    /\ pc = "done"
    /\ Centre \in font

\* C7: a call that fails is the last call of its run and leaves the run in
\* the error state; the final line is not printed; after a failed directory
\* creation no file has changed; after a failed write of icon k the files of
\* icons 1..k-1 are those this run wrote, that write was tried once, and the
\* files of icons k+1..4 are as they were before the run.
C7_FailFast ==
    /\ \A j \in DOMAIN log : ~log[j].ok => j = Len(log) /\ pc = "error"
    /\ pc = "error" =>
          LET last == log[Len(log)] IN
          /\ ~last.ok
          /\ ~Printed(FinalLine)
          /\ last.op \in {"makedirs", "save"}
          /\ last.op = "makedirs" => files = prev.files /\ Len(log) = 1
          /\ last.op = "save" =>
                /\ \A m \in 1..(last.k - 1) :
                      /\ ClaimPath(m) \in DOMAIN files
                      /\ WrittenBy(script, m, files[ClaimPath(m)])
                /\ Cardinality({j \in DOMAIN log : log[j].op = "save" /\ log[j].k = last.k}) = 1
                /\ \A j \in DOMAIN log : log[j].k <= last.k
                /\ \A m \in (last.k + 1)..Len(ClaimNames) : SameAt(files, prev.files, ClaimPath(m))

C7_Witness ==
    /\ pc = "error"
    /\ log[Len(log)].op = "save"
    /\ log[Len(log)].k = 3
    /\ ClaimPath(3) \in DOMAIN files
    /\ files[ClaimPath(3)] = Partial
    /\ ClaimPath(4) \notin DOMAIN files

\* The number of pixels of colour c met from (x, y) in steps of (dx, dy)
\* before a pixel of another colour or the canvas edge.
RECURSIVE RunLen(_, _, _, _, _, _)
RunLen(im, x, y, dx, dy, c) ==
    IF x < 0 \/ x >= im.size[1] \/ y < 0 \/ y >= im.size[2] THEN 0
    ELSE IF Pixel(im, x, y) # c THEN 0
    ELSE 1 + RunLen(im, x + dx, y + dy, dx, dy, c)

\* The background left of, right of, above and below the rectangle, along
\* the canvas's middle row and middle column.
Margins(im) ==
    [left   |-> RunLen(im, 0, 128, 1, 0, im.bg),
     right  |-> RunLen(im, im.size[1] - 1, 128, -1, 0, im.bg),
     top    |-> RunLen(im, 128, 0, 0, 1, im.bg),
     bottom |-> RunLen(im, 128, im.size[2] - 1, 0, -1, im.bg)]

\* The white met on each side right after the background.
Outlines(im) ==
    LET m == Margins(im)
        white == Opaque(im.mode, White)
    IN  [left   |-> RunLen(im, m.left, 128, 1, 0, white),
         right  |-> RunLen(im, im.size[1] - 1 - m.right, 128, -1, 0, white),
         top    |-> RunLen(im, 128, m.top, 0, 1, white),
         bottom |-> RunLen(im, 128, im.size[2] - 1 - m.bottom, 0, -1, white)]

\* C8: once the rectangle is drawn, the background on its left, top, right
\* and bottom is 20 pixels wide in create_icons.py and 50 pixels wide in
\* create_product_icons.py, and inside it lies a white outline 5 (3) pixels
\* wide on every side.
C8_EqualMarginOnEverySide ==
    (img.mode # "none" /\ Len(img.ops) = 1) =>
        LET margin == IF script = "create_icons" THEN 20 ELSE 50
            width == IF script = "create_icons" THEN 5 ELSE 3
        IN  /\ Margins(img) = [left |-> margin, right |-> margin, top |-> margin, bottom |-> margin]
            /\ Outlines(img) = [left |-> width, right |-> width, top |-> width, bottom |-> width]

\* C9: when create_icons.py is about to draw the label, text_x >= 0, the box
\* [text_x, text_x + 10*len(label)) has the canvas centre 128 as its middle,
\* every column of it is a fill-coloured column of the rectangle's interior
\* 25..231, and text_y = 118.
C9_TextBoxCentredInsideFill ==
    pc = "text" =>
        LET fill == Opaque(img.mode, colors(ClaimNames[i]))
            white == Opaque(img.mode, White)
        IN  /\ loc.text_width = 10 * Len(loc.display_name)
            /\ loc.text_x >= 0
            /\ loc.text_x + (loc.text_x + loc.text_width) = 2 * 128
            /\ 25 <= loc.text_x
            /\ loc.text_x + loc.text_width - 1 <= 231
            /\ Pixel(img, 24, 128) = white /\ Pixel(img, 232, 128) = white
            /\ \A x \in 25..231 : Pixel(img, x, 128) = fill
            /\ \A x \in loc.text_x..(loc.text_x + loc.text_width - 1) :
                  Pixel(img, x, loc.text_y) = fill
            /\ loc.text_y = 118

C9_Witness == pc = "text" /\ i = 3 /\ loc.text_x = 53 /\ loc.text_width = 150

\* C10: the two scripts write the same four paths: when a run of one script
\* has completed after a completed run of the other, each of the four files
\* is the one the later script draws and differs from the one the earlier
\* script left there.
C10_LastScriptWins ==
    (pc = "done" /\ prev.result = "done" /\ prev.script # script) =>
        /\ DOMAIN files = DOMAIN prev.files
        /\ \A m \in DOMAIN ClaimNames :
              LET p == ClaimPath(m) IN
              /\ p \in DOMAIN files /\ p \in DOMAIN prev.files
              /\ WrittenBy(script, m, files[p])
              /\ WrittenBy(prev.script, m, prev.files[p])
              /\ ~WrittenBy(prev.script, m, files[p])
              /\ Pixel(files[p], 0, 0) # Pixel(prev.files[p], 0, 0)
              /\ Pixel(files[p], 128, 30) # Pixel(prev.files[p], 128, 30)

C10_Witness ==
    /\ pc = "done"
    /\ prev.result = "done"
    /\ prev.script = "create_product_icons"
    /\ script = "create_icons"

=============================================================================
